---- MODULE Spec2Model ----
(***************************************************************************)
(* The switch node of nodes/core/logic/10-switch.js: an ordered rule list  *)
(* evaluated against every message, with the split-side buffer (pendingIn) *)
(* and the join-side regrouper (pendingOut, received) for message          *)
(* sequences.  One handler run (an 'input' or a 'close' event) is one      *)
(* action; node.send, node.error and node.warn calls of the run are kept,  *)
(* in order, in the variable trace.                                        *)
(*                                                                         *)
(* pendingId and seq_no (lines 221, 231, 436) are written and never read;  *)
(* they are left out of the state.                                         *)
(***************************************************************************)
EXTENDS Integers, Sequences, FiniteSets, TLC

VARIABLES
    settings,       \* RED.settings, as far as getMaxKeptCount reads it
    node,           \* the constructed node: rules, property, checkall, ...
    previousValue,  \* node.previousValue
    pendingCount,   \* var pendingCount
    pendingIn,      \* var pendingIn: group id -> [count, msgs]
    pendingOut,     \* var pendingOut: group id -> [onwards]
    received,       \* var received: group id -> number
    input,          \* the event handled by the last step
    trace           \* what the last step evaluated, sent and reported

vars == <<settings, node, previousValue, pendingCount, pendingIn, pendingOut,
          received, input, trace>>

-----------------------------------------------------------------------------
(* Bounds of the model.                                                    *)

\* without a configured maximum, inputs are accepted while fewer than
\* MaxBuffered items are buffered; pendingCount is kept within MaxBuffered
MaxBuffered == 3

-----------------------------------------------------------------------------
(* JavaScript values, as far as the rules of the model need them.          *)

Undefined == [undefined |-> TRUE]
Null == [null |-> TRUE]
Num(n) == [num |-> n]
Str(s) == [str |-> s]
Bool(b) == [bool |-> b]
NaN == [nan |-> TRUE]

IsNum(a) == DOMAIN a = {"num"}
IsStr(a) == DOMAIN a = {"str"}
IsBool(a) == DOMAIN a = {"bool"}
IsNullish(a) == a = Undefined \/ a = Null

\* Number(a): the set holding the number, or {} for NaN.  The only strings
\* of the model are not numeric.
ToNumber(a) ==
    IF IsNum(a) THEN {a.num}
    ELSE IF IsBool(a) THEN {IF a.bool THEN 1 ELSE 0}
    ELSE IF a = Null THEN {0}
    ELSE {}

\* a == b
LooseEq(a, b) ==
    IF a = NaN \/ b = NaN THEN FALSE
    ELSE IF IsNullish(a) \/ IsNullish(b) THEN IsNullish(a) /\ IsNullish(b)
    ELSE IF DOMAIN a = DOMAIN b THEN a = b
    ELSE ToNumber(a) # {} /\ ToNumber(a) = ToNumber(b)

\* a < b and a <= b; two strings compare as strings, anything else as numbers
LessThan(a, b) ==
    IF IsStr(a) /\ IsStr(b) THEN FALSE
    ELSE \E x \in ToNumber(a) : \E y \in ToNumber(b) : x < y

LessEq(a, b) ==
    IF IsStr(a) /\ IsStr(b) THEN a = b
    ELSE \E x \in ToNumber(a) : \E y \in ToNumber(b) : x <= y

-----------------------------------------------------------------------------
(* Messages.                                                               *)

hasOwnProperty(obj, name) == name \in DOMAIN obj

\* msg.parts.index and msg.parts.count as JavaScript values
PartsField(parts, name) ==
    IF hasOwnProperty(parts, name) THEN Num(parts[name]) ELSE Undefined

\* the result of a call that may throw
Ok(v) == [ok |-> TRUE, value |-> v]
Throw == [ok |-> FALSE, value |-> Undefined]

-----------------------------------------------------------------------------
(* The operator table.  A predicate yields TRUE or FALSE, or throws when   *)
(* it reads a field of an undefined parts.                                 *)

NoParts == [noparts |-> TRUE]

MsgParts(msg) == IF hasOwnProperty(msg, "parts") THEN msg.parts ELSE NoParts

operators(t, a, b, c, parts) ==
    CASE t = "eq" -> Ok(LooseEq(a, b))
      [] t = "neq" -> Ok(~LooseEq(a, b))
      [] t = "lt" -> Ok(LessThan(a, b))
      [] t = "lte" -> Ok(LessEq(a, b))
      [] t = "gt" -> Ok(LessThan(b, a))
      [] t = "gte" -> Ok(LessEq(b, a))
      [] t = "btwn" -> Ok(LessEq(b, a) /\ LessEq(a, c))
      [] t = "true" -> Ok(a = Bool(TRUE))
      [] t = "false" -> Ok(a = Bool(FALSE))
      [] t = "null" -> Ok(IsNullish(a))
      [] t = "nnull" -> Ok(~IsNullish(a))
      [] t = "head" ->
            IF parts = NoParts THEN Throw
            ELSE Ok(\E n \in ToNumber(b) :
                        LessThan(PartsField(parts, "index"), Num(n)))
      [] t = "tail" ->
            IF parts = NoParts THEN Throw
            ELSE Ok(\E n \in ToNumber(b) : \E k \in ToNumber(PartsField(parts, "count")) :
                        LessEq(Num(k - n), PartsField(parts, "index")))
      [] t = "index" ->
            IF parts = NoParts THEN Throw
            ELSE Ok(\E lo \in ToNumber(b) : \E hi \in ToNumber(c) :
                        /\ LessEq(Num(lo), PartsField(parts, "index"))
                        /\ LessEq(PartsField(parts, "index"), Num(hi)))
      [] t = "jsonata_exp" -> Ok(b = Bool(TRUE))
      [] t = "else" -> Ok(a = Bool(TRUE))

-----------------------------------------------------------------------------
(* The host's utilities (RED.util), as far as the node calls them.         *)

Payload(msg) == IF hasOwnProperty(msg, "payload") THEN msg.payload ELSE Undefined

\* The expressions of the model: "payload + 1" fails on a payload that is
\* no number, "payload = 1" never fails, "(" does not compile.  Evaluating
\* what was never compiled throws.
prepareJSONataExpression(text) ==
    IF text = Str("(") THEN Throw ELSE Ok([jsonata |-> text.str])

evaluateJSONataExpression(exp, msg) ==
    CASE ~hasOwnProperty(exp, "jsonata") -> Throw
      [] exp.jsonata = "payload + 1" ->
            IF IsNum(Payload(msg)) THEN Ok(Num(Payload(msg).num + 1))
            ELSE IF Payload(msg) = Undefined THEN Ok(Undefined)
            ELSE Throw
      [] exp.jsonata = "payload = 1" -> Ok(Bool(Payload(msg) = Num(1)))
      [] OTHER -> Throw

\* types "num" and "str" yield the literal, type "msg" reads a message
\* property; reading below an undefined parts throws
evaluateNodeProperty(value, type, msg) ==
    CASE type = "num" -> Ok(IF ToNumber(value) = {} THEN value
                            ELSE Num(CHOOSE n \in ToNumber(value) : TRUE))
      [] type = "msg" ->
            IF value = Str("payload") THEN Ok(Payload(msg))
            ELSE IF value = Str("parts.index")
                 THEN IF hasOwnProperty(msg, "parts")
                      THEN Ok(PartsField(msg.parts, "index")) ELSE Throw
            ELSE Ok(Undefined)
      [] OTHER -> Ok(value)

generateId(n) == [gen |-> n]

-----------------------------------------------------------------------------
(* Construction: the rule normalizer.                                      *)

RuleV(rule) == IF hasOwnProperty(rule, "v") THEN rule.v ELSE Undefined
RuleV2(rule) == IF hasOwnProperty(rule, "v2") THEN rule.v2 ELSE Undefined

Put(obj, key, val) ==
    [k \in DOMAIN obj \cup {key} |-> IF k = key THEN val ELSE obj[k]]

\* lines 176-194: operand 1
NormalizeV(rule) ==
    LET vt == IF hasOwnProperty(rule, "vt") THEN rule.vt
              ELSE IF ToNumber(RuleV(rule)) # {} THEN "num" ELSE "str"
        r1 == Put(rule, "vt", vt)
    IN  IF vt = "num"
        THEN [rule |-> IF ToNumber(RuleV(rule)) # {}
                       THEN Put(r1, "v", Num(CHOOSE n \in ToNumber(RuleV(rule)) : TRUE))
                       ELSE r1,
              valid |-> TRUE]
        ELSE IF vt = "jsonata"
        THEN LET p == prepareJSONataExpression(rule.v)
             IN  [rule |-> IF p.ok THEN Put(r1, "v", p.value) ELSE r1,
                  valid |-> p.ok]
        ELSE [rule |-> r1, valid |-> TRUE]

\* lines 195-213: operand 2, only if present
NormalizeV2(rule) ==
    IF ~hasOwnProperty(rule, "v2") THEN [rule |-> rule, valid |-> TRUE]
    ELSE
    LET v2t == IF hasOwnProperty(rule, "v2t") THEN rule.v2t
               ELSE IF ToNumber(rule.v2) # {} THEN "num" ELSE "str"
        r1 == Put(rule, "v2t", v2t)
    IN  IF v2t = "num"
        THEN [rule |-> IF ToNumber(rule.v2) # {}
                       THEN Put(r1, "v2", Num(CHOOSE n \in ToNumber(rule.v2) : TRUE))
                       ELSE Put(r1, "v2", NaN),
              valid |-> TRUE]
        ELSE IF v2t = "jsonata"
        THEN LET p == prepareJSONataExpression(rule.v2)
             IN  [rule |-> IF p.ok THEN Put(r1, "v2", p.value) ELSE r1,
                  valid |-> p.ok]
        ELSE [rule |-> r1, valid |-> TRUE]

NormalizeRule(rule) ==
    LET a == NormalizeV(rule)
        b == NormalizeV2(a.rule)
    IN  [rule |-> b.rule, valid |-> a.valid /\ b.valid]

\* lines 171-175: buffering is needed in repair mode and for the rule kinds
\* that read parts.count
NeedsCountRepairOnly(n) == n.repair
NeedsCount(n) ==
    n.repair \/ \E i \in 1..Len(n.rules) : n.rules[i].t \in {"tail", "jsonata_exp"}

\* The node after construction; handlers tells whether the input and close
\* handlers were registered (lines 442-448).
SwitchNode(n) ==
    LET propertyType == IF hasOwnProperty(n, "propertyType") THEN n.propertyType
                        ELSE "msg"
        prop == IF propertyType = "jsonata"
                THEN prepareJSONataExpression(n.property) ELSE Ok(n.property)
        norm == [i \in 1..Len(n.rules) |-> NormalizeRule(n.rules[i])]
        rules == [i \in 1..Len(n.rules) |-> norm[i].rule]
        valid == \A i \in 1..Len(n.rules) : norm[i].valid
        needsCount == NeedsCount(n)
    IN  IF ~prop.ok
        THEN [rules |-> n.rules, property |-> n.property,
              propertyType |-> propertyType, checkall |-> "true",
              repair |-> FALSE, needsCount |-> FALSE, handlers |-> FALSE]
        ELSE [rules |-> rules, property |-> prop.value,
              propertyType |-> propertyType,
              checkall |-> IF hasOwnProperty(n, "checkall") THEN n.checkall
                           ELSE "true",
              repair |-> n.repair, needsCount |-> needsCount,
              handlers |-> valid]

-----------------------------------------------------------------------------
(* The node's buffers.  A handler works on the record of the mutable       *)
(* state; s.trace collects what it evaluates, sends and reports.           *)

EmptyObj == [k \in {} |-> Null]

Delete(obj, key) == [k \in DOMAIN obj \ {key} |-> obj[k]]

Log(s, e) == [s EXCEPT !.trace = Append(@, e)]

getMaxKeptCount ==
    IF hasOwnProperty(settings, "nodeMessageBufferMaxLength")
    THEN settings.nodeMessageBufferMaxLength ELSE 0

\* clearPending forgetting to drop the pending-input groups
clearPendingOutOnly(s) ==
    [s EXCEPT !.pendingCount = 0, !.pendingOut = EmptyObj, !.received = EmptyObj]

\* lines 434-440
clearPending(s) ==
    [s EXCEPT !.pendingCount = 0, !.pendingIn = EmptyObj,
              !.pendingOut = EmptyObj, !.received = EmptyObj]

RECURSIVE SumLen(_, _)
SumLen(obj, field) ==
    IF DOMAIN obj = {} THEN 0
    ELSE LET k == CHOOSE x \in DOMAIN obj : TRUE
         IN  Len(obj[k][field]) + SumLen(Delete(obj, k), field)

\* fragments held in pendingIn plus decision arrays held in pendingOut
Held(s) == SumLen(s.pendingIn, "msgs") + SumLen(s.pendingOut, "onwards")

\* node.error(RED._("switch.errors.too-many"), msg), reported in state s;
\* the record keeps what the buffers held when the error was reported
TooMany(s, msg) ==
    [ev |-> "error", what |-> "too-many", msg |-> msg, held |-> Held(s)]

\* The group object stays the caller's after clearPending has dropped it
\* from pendingIn: it is returned beside the state.
addMessageToGroup(s, id, msg, parts) ==
    LET g0 == IF id \in DOMAIN s.pendingIn THEN s.pendingIn[id]
              ELSE [count |-> {}, msgs |-> <<>>]
        g1 == [g0 EXCEPT !.msgs = Append(@, msg)]
        s1 == [s EXCEPT !.pendingIn = Put(@, id, g1), !.pendingCount = @ + 1]
        max_msgs == getMaxKeptCount
        s2 == IF max_msgs > 0 /\ s1.pendingCount > max_msgs
              THEN Log(clearPending(s1), TooMany(s1, msg))
              ELSE s1
        g2 == IF hasOwnProperty(parts, "count")
              THEN [g1 EXCEPT !.count = {parts.count}] ELSE g1
        s3 == IF id \in DOMAIN s2.pendingIn
              THEN [s2 EXCEPT !.pendingIn = Put(@, id, g2)] ELSE s2
    IN  [s |-> s3, group |-> g2]

\* counts, indexes and the bursts of sendGroup; onward[j] of a port beyond
\* the array's length is undefined
Slot(onward, j) == IF j <= Len(onward) THEN onward[j] ELSE Undefined

Truthy(x) == ~(x = Null \/ x = Undefined)

sendGroup(s, onwards, port_count) ==
    LET counts == [j \in 1..port_count |->
                     Cardinality({i \in 1..Len(onwards) : Slot(onwards[i], j) # Null})]
        indexes(i, j) == Cardinality({k \in 1..(i-1) : Truthy(Slot(onwards[k], j))})
        ports(i) == [j \in 1..port_count |->
                       IF Truthy(Slot(onwards[i], j))
                       THEN [onwards[i][j] EXCEPT
                                !.parts = Put(Put(Put(@, "id", generateId(j - 1)),
                                                  "index", indexes(i, j)),
                                              "count", counts[j])]
                       ELSE Null]
    IN  [s EXCEPT !.trace = @ \o [i \in 1..Len(onwards) |->
                                     [ev |-> "send", ports |-> ports(i)]]]

sendGroupMessages(s, onward, msg) ==
    LET gid == msg.parts.id
        n == (IF gid \in DOMAIN s.received THEN s.received[gid] ELSE 0) + 1
        send_ok == hasOwnProperty(msg.parts, "count") /\ n = msg.parts.count
        g0 == IF gid \in DOMAIN s.pendingOut THEN s.pendingOut[gid]
              ELSE [onwards |-> <<>>]
        onwards == Append(g0.onwards, onward)
        s1 == [s EXCEPT !.received = Put(@, gid, n),
                        !.pendingOut = Put(@, gid, [onwards |-> onwards]),
                        !.pendingCount = @ + 1]
        s2 == IF send_ok
              THEN [sendGroup(s1, onwards, Len(onward)) EXCEPT
                        !.pendingCount = @ - Len(onward),
                        !.pendingOut = Delete(@, gid),
                        !.received = Delete(@, gid)]
              ELSE s1
        max_msgs == getMaxKeptCount
    IN  IF max_msgs > 0 /\ s2.pendingCount > max_msgs
        THEN Log(clearPending(s2), TooMany(s2, msg))
        ELSE s2

-----------------------------------------------------------------------------
(* The rule engine: lines 344-431 of processMessage.                       *)

\* lines 362-390.  "return" is the return of line 377, after node.error.
getV1(msg, rule, prev) ==
    CASE rule.vt = "prev" -> [kind |-> "value", value |-> prev]
      [] rule.vt = "jsonata" ->
            LET r == evaluateJSONataExpression(rule.v, msg)
            IN  IF r.ok THEN [kind |-> "value", value |-> r.value]
                ELSE [kind |-> "return", value |-> Undefined]
      [] rule.vt = "json" -> [kind |-> "value", value |-> Str("json")]
      [] rule.vt = "null" -> [kind |-> "value", value |-> Str("null")]
      [] OTHER ->
            LET r == evaluateNodeProperty(RuleV(rule), rule.vt, msg)
            IN  [kind |-> "value", value |-> IF r.ok THEN r.value ELSE Undefined]

\* operand 2 with a failing expression resolving to undefined
getV2Lenient(msg, rule, prev) ==
    LET v2t == IF hasOwnProperty(rule, "v2t") THEN rule.v2t ELSE "undefined"
    IN  CASE v2t = "prev" -> [kind |-> "value", value |-> prev]
          [] v2t = "jsonata" ->
                LET r == evaluateJSONataExpression(rule.v2, msg)
                IN  [kind |-> "value", value |-> IF r.ok THEN r.value ELSE Undefined]
          [] OTHER ->
                IF RuleV2(rule) # Undefined
                THEN LET r == evaluateNodeProperty(rule.v2, v2t, msg)
                     IN  [kind |-> "value",
                          value |-> IF r.ok THEN r.value ELSE Undefined]
                ELSE [kind |-> "value", value |-> Undefined]

\* lines 392-410.  "return" is the return of line 401, after node.error.
getV2(msg, rule, prev) ==
    LET v2t == IF hasOwnProperty(rule, "v2t") THEN rule.v2t ELSE "undefined"
    IN  CASE v2t = "prev" -> [kind |-> "value", value |-> prev]
          [] v2t = "jsonata" ->
                LET r == evaluateJSONataExpression(rule.v2, msg)
                IN  IF r.ok THEN [kind |-> "value", value |-> r.value]
                    ELSE [kind |-> "return", value |-> Undefined]
          [] OTHER ->
                IF RuleV2(rule) # Undefined
                THEN LET r == evaluateNodeProperty(rule.v2, v2t, msg)
                     IN  [kind |-> "value",
                          value |-> IF r.ok THEN r.value ELSE Undefined]
                ELSE [kind |-> "value", value |-> Undefined]

\* line 417: stop at the first match
StopNever == FALSE
StopAlways == TRUE
StopAtMatch == node.checkall = "false"

\* line 413: an else rule sets the flag again
ElseFlagKept(rule, elseflag) == elseflag
ElseFlagAfter(rule, elseflag) == IF rule.t = "else" THEN TRUE ELSE elseflag

\* The loop of lines 357-421 from rule i on.  It ends "done" with the
\* array, "return" (an operand's expression failed) or "throw" (a predicate
\* threw).
RECURSIVE RuleLoop(_, _, _, _, _, _)
RuleLoop(msg, prop, prev, i, onward, elseflag) ==
    IF i > Len(node.rules) THEN [kind |-> "done", onward |-> onward]
    ELSE
    LET rule == node.rules[i]
        v1 == getV1(msg, rule, prev)
        v2 == getV2(msg, rule, prev)
        test == IF rule.t = "else" THEN Bool(elseflag) ELSE prop
        flag == ElseFlagAfter(rule, elseflag)
        r == operators(rule.t, test, v1.value, v2.value, MsgParts(msg))
    IN  IF v1.kind = "return" \/ v2.kind = "return"
        THEN [kind |-> "return", onward |-> onward]
        ELSE IF ~r.ok THEN [kind |-> "throw", onward |-> onward]
        ELSE IF r.value
        THEN IF StopAtMatch
             THEN [kind |-> "done", onward |-> Append(onward, msg)]
             ELSE RuleLoop(msg, prop, prev, i + 1, Append(onward, msg), FALSE)
        ELSE RuleLoop(msg, prop, prev, i + 1, Append(onward, Null), flag)

\* lines 349-353
getProperty(msg) ==
    IF node.propertyType = "jsonata"
    THEN evaluateJSONataExpression(node.property, msg)
    ELSE evaluateNodeProperty(node.property, node.propertyType, msg)

HasParts(msg) ==
    /\ hasOwnProperty(msg, "parts")
    /\ hasOwnProperty(msg.parts, "id")
    /\ hasOwnProperty(msg.parts, "index")

InvalidExpr == [ev |-> "error", what |-> "invalid-expr"]
Warn == [ev |-> "warn"]

\* lines 375-378 and 399-402: an operand's expression failed
ReturnSendingPartial(s, onward) ==
    Log(Log(s, InvalidExpr), [ev |-> "send", ports |-> onward])
ReturnAfterError(s, onward) == Log(s, InvalidExpr)

\* line 422: node.previousValue = prop
Forget(s, value) == s
Remember(s, value) == [s EXCEPT !.previousValue = value]

\* One pass of the rule engine over msg; the pass is recorded in the trace
\* with the previous value it starts from.
RulePass(s, msg) ==
    LET s0 == Log(s, [ev |-> "eval", msg |-> msg, prev |-> s.previousValue])
        prop == getProperty(msg)
        loop == RuleLoop(msg, prop.value, s.previousValue, 1, <<>>, TRUE)
    IN  IF ~prop.ok THEN Log(s0, Warn)
        ELSE IF loop.kind = "return" THEN ReturnAfterError(s0, loop.onward)
        ELSE IF loop.kind = "throw" THEN Log(s0, Warn)
        ELSE LET s1 == Remember(s0, prop.value)
             IN  IF ~node.repair \/ ~HasParts(msg)
                 THEN Log(s1, [ev |-> "send", ports |-> loop.onward])
                 ELSE sendGroupMessages(s1, loop.onward, msg)

-----------------------------------------------------------------------------
(* The split-side buffer and the dispatcher.                               *)

RECURSIVE processMessage(_, _, _)

\* Release taking the messages from the end of the list (msgs.pop())
RECURSIVE ReleaseFromEnd(_, _, _, _)
ReleaseFromEnd(s, msgs, count, i) ==
    IF i > Len(msgs) THEN s
    ELSE ReleaseFromEnd(
             processMessage(s, [msgs[Len(msgs) + 1 - i] EXCEPT
                                    !.parts = Put(@, "count", count)], FALSE),
             msgs, count, i + 1)

\* the loop of lines 257-261: every message of the group gets the group's
\* count and goes through processMessage(msg, false)
RECURSIVE Release(_, _, _, _)
Release(s, msgs, count, i) ==
    IF i > Len(msgs) THEN s
    ELSE Release(processMessage(s, [msgs[i] EXCEPT !.parts = Put(@, "count", count)],
                                FALSE),
                 msgs, count, i + 1)

addMessageToPending(s, msg) ==
    LET parts == msg.parts
    IN  IF hasOwnProperty(parts, "id") /\ hasOwnProperty(parts, "index")
        THEN LET r == addMessageToGroup(s, parts.id, msg, parts)
                 msgs == r.group.msgs
                 count == r.group.count
             IN  IF count = {Len(msgs)}
                 THEN LET s1 == Release(r.s, msgs, Len(msgs), 1)
                      IN  [s |-> [s1 EXCEPT !.pendingCount = @ - Len(msgs),
                                            !.pendingIn = Delete(@, parts.id)],
                           ret |-> TRUE]
                 ELSE [s |-> r.s, ret |-> TRUE]
        ELSE [s |-> s, ret |-> FALSE]

processMessage(s, msg, checkParts) ==
    IF node.needsCount /\ checkParts /\ HasParts(msg)
    THEN LET r == addMessageToPending(s, msg)
         IN  IF r.ret THEN r.s ELSE RulePass(r.s, msg)
    ELSE RulePass(s, msg)

-----------------------------------------------------------------------------
(* Configurations and inputs.                                              *)

Eq(k) == [t |-> "eq", v |-> Num(k), vt |-> "num"]
Else == [t |-> "else"]
TailRule(k) == [t |-> "tail", v |-> Num(k), vt |-> "num"]
\* property < payload + 1: the operand's expression fails on a string payload
LtExp == [t |-> "lt", v |-> Str("payload + 1"), vt |-> "jsonata"]
NNull == [t |-> "nnull"]
\* 0 <= property <= payload + 1: operand 2 is the failing expression
BtwnExp == [t |-> "btwn", v |-> Num(0), vt |-> "num",
            v2 |-> Str("payload + 1"), v2t |-> "jsonata"]
HeadRule(k) == [t |-> "head", v |-> Num(k), vt |-> "num"]
IndexRule(lo, hi) == [t |-> "index", v |-> Num(lo), vt |-> "num",
                      v2 |-> Num(hi), v2t |-> "num"]
ExpRule == [t |-> "jsonata_exp", v |-> Str("payload = 1"), vt |-> "jsonata"]
\* property == previousValue, and previousValue <= property <= previousValue
EqPrev == [t |-> "eq", vt |-> "prev"]
BtwnPrev == [t |-> "btwn", vt |-> "prev", v2t |-> "prev"]
\* rules whose expression does not compile
BadV == [t |-> "lt", v |-> Str("("), vt |-> "jsonata"]
BadV2 == [t |-> "btwn", v |-> Num(0), vt |-> "num", v2 |-> Str("("), v2t |-> "jsonata"]

Cfg(rs, ca, rp) ==
    [rules |-> rs, property |-> Str("payload"), checkall |-> ca, repair |-> rp]

\* a property under test whose expression does not compile
BadProperty(rs) ==
    [rules |-> rs, property |-> Str("("), propertyType |-> "jsonata",
     checkall |-> "true", repair |-> TRUE]

Unbounded == EmptyObj
MaxKept(m) == [nodeMessageBufferMaxLength |-> m]

\* the configurations of the model: <<node configuration, settings>>
Configs ==
    { <<Cfg(<<Eq(1), Else, Eq(2), Else>>, ca, FALSE), Unbounded>> :
        ca \in {"true", "false"} } \cup
    { <<Cfg(<<NNull, LtExp>>, ca, rp), Unbounded>> :
        ca \in {"true", "false"}, rp \in BOOLEAN } \cup
    { <<Cfg(<<TailRule(1), Eq(1)>>, "true", FALSE), st>> :
        st \in {Unbounded, MaxKept(2)} } \cup
    { <<Cfg(<<Eq(1), Else>>, ca, TRUE), st>> :
        ca \in {"true", "false"}, st \in {Unbounded, MaxKept(2)} } \cup
    { <<Cfg(<<Eq(1), Else>>, "false", TRUE), MaxKept(3)>>,
      <<Cfg(<<NNull, BtwnExp, Else>>, "true", FALSE), Unbounded>>,
      <<Cfg(<<HeadRule(1), IndexRule(0, 0), Eq(1)>>, "true", FALSE), Unbounded>>,
      <<Cfg(<<ExpRule, Else>>, "true", FALSE), Unbounded>>,
      <<Cfg(<<EqPrev, LtExp, BtwnPrev>>, "true", FALSE), Unbounded>>,
      <<BadProperty(<<Eq(1)>>), Unbounded>>,
      <<Cfg(<<NNull, BadV>>, "true", TRUE), Unbounded>>,
      <<Cfg(<<BadV2, TailRule(1)>>, "true", FALSE), Unbounded>> }

\* Inputs: messages without parts, the fragments of group g1 in every
\* shape, and fragments of a second group g2 to interleave with them.
Payloads == {Num(1), Num(2), Str("x")}
Indexes == {0, 1}
Counts == {2}

Frag(g, i, p) == [payload |-> p, parts |-> [id |-> g, index |-> i]]
FragN(g, i, c, p) == [payload |-> p, parts |-> [id |-> g, index |-> i, count |-> c]]

Messages ==
    { [payload |-> p] : p \in Payloads } \cup
    { Frag("g1", i, p) : i \in Indexes, p \in {Num(1), Str("x")} } \cup
    { FragN("g1", i, c, p) : i \in Indexes, c \in Counts, p \in {Num(1), Str("x")} } \cup
    { Frag("g2", 0, Num(1)) } \cup
    { FragN("g2", 0, 1, Num(1)) }

-----------------------------------------------------------------------------
(* The state machine.                                                      *)

State ==
    [previousValue |-> previousValue, pendingCount |-> pendingCount,
     pendingIn |-> pendingIn, pendingOut |-> pendingOut, received |-> received,
     trace |-> <<>>]

\* fragments held in pendingIn plus decision arrays held in pendingOut
Buffered == SumLen(pendingIn, "msgs") + SumLen(pendingOut, "onwards")

Init ==
    /\ \E c \in Configs : node = SwitchNode(c[1]) /\ settings = c[2]
    /\ previousValue = Null
    /\ pendingCount = 0
    /\ pendingIn = EmptyObj
    /\ pendingOut = EmptyObj
    /\ received = EmptyObj
    /\ input = [none |-> TRUE]
    /\ trace = <<>>

Set(s) ==
    /\ previousValue' = s.previousValue
    /\ pendingCount' = s.pendingCount
    /\ pendingIn' = s.pendingIn
    /\ pendingOut' = s.pendingOut
    /\ received' = s.received
    /\ trace' = s.trace
    /\ UNCHANGED <<settings, node>>

\* lines 216-218 and 442-444: a node whose construction returned early has
\* no input handler, and a message that arrives runs nothing
DeliverAlways(s, msg) == processMessage(s, msg, TRUE)
Deliver(s, msg) == IF node.handlers THEN processMessage(s, msg, TRUE) ELSE s

\* a message arrives: this.on('input', ...)
Input(msg) ==
    /\ Buffered < MaxBuffered
    /\ pendingCount \in (0 - MaxBuffered)..MaxBuffered
    /\ Set(Deliver(State, msg))
    /\ input' = [msg |-> msg]

\* this.on('close', ...); held is what the buffers held before
Close ==
    /\ node.handlers
    /\ Set(clearPending(State))
    /\ input' = [close |-> TRUE, held |-> Buffered]

Next ==
    \/ \E msg \in Messages : Input(msg)
    \/ Close

Spec == Init /\ [][Next]_vars

-----------------------------------------------------------------------------
(* Reading the trace of the last handler run.                              *)

IsEval(e) == e.ev = "eval"
IsSend(e) == e.ev = "send"
IsTooMany(e) == e.ev = "error" /\ e.what = "too-many"
IsFailure(e) == e.ev = "warn" \/ (e.ev = "error" /\ e.what = "invalid-expr")

Evals(tr) == SelectSeq(tr, IsEval)
Sends(tr) == SelectSeq(tr, IsSend)
Evaluated(tr) == [i \in 1..Len(Evals(tr)) |-> Evals(tr)[i].msg]
Overflowed(tr) == \E i \in 1..Len(tr) : IsTooMany(tr[i])
Failed(tr) == \E i \in 1..Len(tr) : IsFailure(tr[i])

IsInput == hasOwnProperty(input, "msg")
WithCount(msg, c) == [msg EXCEPT !.parts = Put(@, "count", c)]

-----------------------------------------------------------------------------
\* C1: when buffering applies and the run reports no overflow, a fragment
\* is evaluated only in the run in which the number of accumulated
\* fragments of its group reaches the group's known count; that run
\* evaluates every accumulated fragment exactly once, in arrival order, each
\* with parts.count set to the group's count, and the group leaves
\* pendingIn; any other run evaluates nothing and keeps the fragment.
C1Step ==
    (IsInput' /\ node.handlers /\ node.needsCount /\ HasParts(input'.msg)
        /\ ~Overflowed(trace'))
    => LET m == input'.msg
           id == m.parts.id
           old == IF id \in DOMAIN pendingIn THEN pendingIn[id]
                  ELSE [count |-> {}, msgs |-> <<>>]
           acc == Append(old.msgs, m)
           known == IF hasOwnProperty(m.parts, "count") THEN {m.parts.count}
                    ELSE old.count
       IN  IF known = {Len(acc)}
           THEN /\ Evaluated(trace') =
                        [i \in 1..Len(acc) |-> WithCount(acc[i], Len(acc))]
                /\ id \notin DOMAIN pendingIn'
           ELSE /\ Evaluated(trace') = <<>>
                /\ id \in DOMAIN pendingIn'
                /\ pendingIn'[id].msgs = acc

C1SplitRelease == [][C1Step]_vars

\* a group of two completes by its index-0 fragment, which arrived last and
\* declares no count, while a fragment of the other group is buffered
C1Witness ==
    /\ IsInput /\ node.needsCount /\ ~node.repair /\ ~Overflowed(trace)
    /\ input.msg = Frag("g1", 0, Num(1))
    /\ Len(Evals(trace)) = 2
    /\ Evaluated(trace)[1].parts.index = 1
    /\ Evaluated(trace)[2] = WithCount(input.msg, 2)
    /\ "g2" \in DOMAIN pendingIn

-----------------------------------------------------------------------------
\* the messages a run sent on port j, in the order sent
OnPort(e, j) == j <= Len(e.ports) /\ e.ports[j] # Null
PortMsgs(tr, j) ==
    LET S == SelectSeq(Sends(tr), LAMBDA e : OnPort(e, j))
    IN  [k \in 1..Len(S) |-> S[k].ports[j]]

\* C2: in repair mode the messages of a group emitted on one port carry the
\* indices 0, 1, ..., k-1 in the order sent and all carry parts.count = k,
\* k being the number of messages of the group emitted on that port.
C2Numbering ==
    node.repair =>
        \A j \in 1..Len(node.rules) :
            LET ms == PortMsgs(trace, j)
            IN  \A i \in 1..Len(ms) :
                    HasParts(ms[i]) =>
                        /\ ms[i].parts.index = i - 1
                        /\ ms[i].parts.count = Len(ms)

-----------------------------------------------------------------------------
(* Which array belongs to which evaluated message.                         *)

\* rule j applied alone to the message of eval event e (not an else rule)
OpHolds(j, e) ==
    LET rule == node.rules[j]
        r == operators(rule.t, getProperty(e.msg).value,
                       getV1(e.msg, rule, e.prev).value,
                       getV2(e.msg, rule, e.prev).value, MsgParts(e.msg))
    IN  r.ok /\ r.value

\* positions of the trace where a pass is followed by its own node.send
DirectPairs(tr) ==
    { p \in 1..(Len(tr) - 1) :
        /\ IsEval(tr[p]) /\ IsSend(tr[p + 1])
        /\ ~node.repair \/ ~HasParts(tr[p].msg) }

\* a step that releases a group into the regrouper, which held nothing of
\* that group before, with no failure and no overflow
RegroupRun ==
    /\ IsInput' /\ node.repair /\ HasParts(input'.msg)
    /\ ~Overflowed(trace') /\ ~Failed(trace') /\ Evals(trace') # <<>>
    /\ input'.msg.parts.id \notin DOMAIN pendingOut
    /\ input'.msg.parts.id \notin DOMAIN received

MinOf(a, b) == IF a <= b THEN a ELSE b

\* <<eval event, array sent for it>> of the step
Routed ==
    { <<trace'[p], trace'[p + 1].ports>> : p \in DirectPairs(trace') } \cup
    IF RegroupRun
    THEN { <<Evals(trace')[k], Sends(trace')[k].ports>> :
             k \in 1..MinOf(Len(Evals(trace')), Len(Sends(trace'))) }
    ELSE {}

NonAbsent(ports) == { j \in 1..Len(ports) : ports[j] # Null }

\* C3: when a group completes in repair mode, every fragment of the group
\* is emitted exactly once on every port whose rule matched it: one burst per
\* fragment, the fragment in the slot of each port that matched.
C3Step ==
    RegroupRun =>
        LET E == Evals(trace')
            S == Sends(trace')
            D(i) == RuleLoop(E[i].msg, getProperty(E[i].msg).value, E[i].prev,
                             1, <<>>, TRUE).onward
        IN  /\ Len(S) = Len(E)
            /\ \A i \in 1..Len(E) : \A j \in 1..Len(node.rules) :
                    Truthy(Slot(D(i), j)) =>
                        /\ OnPort(S[i], j)
                        /\ S[i].ports[j].payload = E[i].msg.payload

C3Complete == [][C3Step]_vars

\* C4: in first-match mode every array sent has at most one non-absent
\* slot, and that slot is the one of the first rule, in configured order,
\* that matches the message (an else rule matches when none before it did).
FirstMatching(e) ==
    { j \in 1..Len(node.rules) :
        /\ node.rules[j].t = "else" \/ OpHolds(j, e)
        /\ \A i \in 1..(j - 1) : node.rules[i].t # "else" /\ ~OpHolds(i, e) }

C4Step ==
    node.checkall = "false" =>
        /\ \A k \in 1..Len(Sends(trace')) :
               Cardinality(NonAbsent(Sends(trace')[k].ports)) <= 1
        /\ \A r \in Routed : NonAbsent(r[2]) \subseteq FirstMatching(r[1])

C4FirstMatch == [][C4Step]_vars

\* a first-match run sends an array whose only message is in the slot of
\* the second rule
C4Witness ==
    /\ node.checkall = "false" /\ ~node.repair /\ Len(trace) = 2
    /\ IsSend(trace[2]) /\ NonAbsent(trace[2].ports) = {2}

\* the windows of the else rules: rule j and the rules before it back to,
\* and including, the nearest else rule
SinceElse(j) ==
    { i \in 1..(j - 1) :
        \A k \in (i + 1)..(j - 1) : node.rules[k].t # "else" }

\* C5: in exhaustive mode the array of a message whose pass raised no
\* error has one slot per rule, and slot j is non-absent exactly if rule j
\* matched: its predicate holds of the message, whatever matched earlier
\* (an else rule: nothing matched since the previous else rule).
C5Step ==
    node.checkall = "true" =>
        \A r \in Routed :
            /\ Len(r[2]) = Len(node.rules)
            /\ \A j \in 1..Len(node.rules) :
                    (r[2][j] # Null) <=>
                        IF node.rules[j].t = "else"
                        THEN \A i \in SinceElse(j) : r[2][i] = Null
                        ELSE OpHolds(j, r[1])

C5Exhaustive == [][C5Step]_vars

\* an exhaustive run sends an array with two non-absent slots
C5Witness ==
    /\ node.checkall = "true" /\ Len(trace) = 2 /\ IsSend(trace[2])
    /\ NonAbsent(trace[2].ports) = {1, 2} /\ node.rules[2].t = "lt"

C7Length ==
    \A k \in 1..Len(Sends(trace)) :
        Len(Sends(trace)[k].ports) = Len(node.rules)

-----------------------------------------------------------------------------
\* C8: when buffering a fragment makes pendingCount exceed the maximum, the
\* run reports that one overflow error and nothing else: no message is
\* evaluated and none is sent.
C8Abandon ==
    (trace # <<>> /\ IsTooMany(trace[1])) => Len(trace) = 1

\* C9: after a run that reported the overflow error, pendingIn, pendingOut
\* and received are empty and pendingCount is 0.
C9Discard ==
    Overflowed(trace) =>
        /\ pendingCount = 0
        /\ pendingIn = EmptyObj
        /\ pendingOut = EmptyObj
        /\ received = EmptyObj

-----------------------------------------------------------------------------
\* the pass of the input message, the last pass of the run, failed
InputFailed(tr) ==
    /\ Len(tr) >= 2
    /\ IsEval(tr[Len(tr) - 1])
    /\ IsFailure(tr[Len(tr)])

\* no array is sent by a pass that failed: after the failure comes the next
\* pass or the end of the run
NoPartialOutput(tr) ==
    \A p \in 1..(Len(tr) - 1) : IsFailure(tr[p]) => IsEval(tr[p + 1])

\* the router handles every next message as the router before the step does
RoutesAsBefore ==
    \A m \in Messages :
        processMessage(State', m, TRUE).trace = processMessage(State, m, TRUE).trace

\* C10 as stated: a message whose pass fails gets no array, and the next
\* message is routed as by a router that never received it.
C10StepAsStated ==
    IsInput' =>
        /\ NoPartialOutput(trace')
        /\ InputFailed(trace') => RoutesAsBefore

C10AsStated == [][C10StepAsStated]_vars

\* C10, for messages the sequence buffer does not hold: a message whose
\* pass fails gets no array, even if rules matched before the failure; if
\* the message is not held by the sequence buffer,
\* the run leaves the node's state as it was, and the next message is routed
\* as by a router that never received the failing message.
C10Step ==
    IsInput' =>
        /\ NoPartialOutput(trace')
        /\ (InputFailed(trace') /\ ~(node.needsCount /\ HasParts(input'.msg))) =>
                /\ UNCHANGED <<previousValue, pendingCount, pendingIn,
                               pendingOut, received>>
                /\ RoutesAsBefore

C10Recovered == [][C10Step]_vars

\* the expression of the second rule fails on a message the first rule
\* matched: the run is the pass and the error
C10Witness ==
    /\ IsInput /\ ~HasParts(input.msg) /\ Len(trace) = 2
    /\ IsEval(trace[1]) /\ trace[2] = InvalidExpr
    /\ OpHolds(1, trace[1])
    /\ previousValue = Num(1)

-----------------------------------------------------------------------------
(* Which rules the pass of an eval event e reaches, and how they end.      *)

\* the expression of operand 1, of operand 2, of rule j fails on e's message
V1Fails(j, e) ==
    /\ node.rules[j].vt = "jsonata"
    /\ ~evaluateJSONataExpression(node.rules[j].v, e.msg).ok

V2Fails(j, e) ==
    /\ hasOwnProperty(node.rules[j], "v2t")
    /\ node.rules[j].v2t = "jsonata"
    /\ ~evaluateJSONataExpression(node.rules[j].v2, e.msg).ok

\* the predicate of rule j throws on e's message
Throws(j, e) ==
    node.rules[j].t \in {"head", "tail", "index"} /\ ~hasOwnProperty(e.msg, "parts")

\* the pass of e gets to rule j: the property resolved, no earlier rule
\* failed or threw, and in first-match mode no earlier rule matched
Reaches(j, e) ==
    /\ getProperty(e.msg).ok
    /\ \A i \in 1..(j - 1) :
            /\ ~V1Fails(i, e) /\ ~V2Fails(i, e) /\ ~Throws(i, e)
            /\ node.checkall = "false" =>
                    node.rules[i].t # "else" /\ ~OpHolds(i, e)

\* positions of the trace whose pass reaches a rule whose operand 2 fails
V2FailurePasses(tr) ==
    { p \in 1..Len(tr) :
        /\ IsEval(tr[p])
        /\ \E j \in 1..Len(node.rules) :
                Reaches(j, tr[p]) /\ ~V1Fails(j, tr[p]) /\ V2Fails(j, tr[p]) }

\* C11 as stated: a pass that reaches a rule whose operand-2 expression
\* fails goes on with an undefined operand: no error is reported for it, and
\* its array is sent.
C11AsStated ==
    \A p \in V2FailurePasses(trace) :
        /\ p < Len(trace)
        /\ ~IsFailure(trace[p + 1])
        /\ (~node.repair \/ ~HasParts(trace[p].msg)) => IsSend(trace[p + 1])

\* C11: a pass that reaches a rule whose operand-2 expression fails reports
\* the invalid-expression error and ends there: no array is sent for the
\* message, and previousValue stays what the pass started from.
C11Reported ==
    \A p \in V2FailurePasses(trace) :
        /\ p < Len(trace)
        /\ trace[p + 1] = InvalidExpr
        /\ p + 2 <= Len(trace) => IsEval(trace[p + 2])
        /\ p + 1 = Len(trace) => previousValue = trace[p].prev

\* payload "x" passes the first rule and fails in operand 2 of the second
C11Witness ==
    /\ IsInput /\ input.msg = [payload |-> Str("x")]
    /\ Len(node.rules) = 3 /\ Len(trace) = 2
    /\ node.rules[2].t = "btwn" /\ V2Fails(2, trace[1])
    /\ OpHolds(1, trace[1])
    /\ trace[2] = InvalidExpr

-----------------------------------------------------------------------------
\* positions of the trace whose pass reaches a positional rule with a
\* message that carries no parts
NoPartsPasses(tr) ==
    { p \in 1..Len(tr) :
        /\ IsEval(tr[p])
        /\ \E j \in 1..Len(node.rules) : Reaches(j, tr[p]) /\ Throws(j, tr[p]) }

\* C12: a head, tail or index rule does not match a message that carries
\* no parts: the pass is not dropped, its array is sent, and the slots of the
\* positional rules carry the absence marker.
C12NoMatch ==
    \A p \in NoPartsPasses(trace) :
        /\ p < Len(trace)
        /\ IsSend(trace[p + 1])
        /\ \A j \in 1..Len(trace[p + 1].ports) :
                node.rules[j].t \in {"head", "tail", "index"} =>
                    trace[p + 1].ports[j] = Null

-----------------------------------------------------------------------------
\* the state of a node that has buffered nothing yet and remembers pv
Fresh(pv) ==
    [previousValue |-> pv, pendingCount |-> 0, pendingIn |-> EmptyObj,
     pendingOut |-> EmptyObj, received |-> EmptyObj, trace |-> <<>>]

IsClose == hasOwnProperty(input, "close")

\* C13: a close leaves pendingIn, pendingOut and received empty and
\* pendingCount 0, and the node then handles every message, the fragments of
\* the groups it held or released before included, as a node that has never
\* buffered anything does (previousValue is not part of what close clears).
C13Step ==
    IsClose' =>
        /\ pendingCount' = 0
        /\ pendingIn' = EmptyObj
        /\ pendingOut' = EmptyObj
        /\ received' = EmptyObj
        /\ \A m \in Messages :
                processMessage(State', m, TRUE) =
                    processMessage(Fresh(previousValue), m, TRUE)

C13Reset == [][C13Step]_vars

\* a close that dropped two buffered items of a node that had routed
\* messages before
C13Witness ==
    IsClose /\ input.held = 2 /\ previousValue # Null /\ pendingCount = 0

-----------------------------------------------------------------------------
\* C14: a node whose construction met an expression that does not compile
\* (the property under test, operand 1 or operand 2 of a rule) evaluates,
\* buffers and forwards nothing, whatever arrives.
C14Inert ==
    ~node.handlers =>
        /\ trace = <<>>
        /\ previousValue = Null
        /\ pendingCount = 0
        /\ pendingIn = EmptyObj
        /\ pendingOut = EmptyObj
        /\ received = EmptyObj

\* a fragment has arrived at a node in repair mode whose rule did not
\* compile
C14Witness ==
    /\ ~node.handlers /\ node.repair /\ node.propertyType = "msg"
    /\ IsInput /\ HasParts(input.msg)

-----------------------------------------------------------------------------
\* C15: after every run pendingCount is the number of fragments held in
\* pendingIn plus the number of decision arrays held in pendingOut.
C15Accounting == pendingCount = Buffered

\* C16: with a maximum M > 0 configured, after every run pendingIn and
\* pendingOut hold at most M items.
C16Bound == getMaxKeptCount > 0 => Buffered <= getMaxKeptCount

\* C17: the overflow error is reported only when pendingIn and pendingOut,
\* the item just added included, hold more than the maximum.
C17NoSpurious ==
    \A p \in 1..Len(trace) :
        IsTooMany(trace[p]) => trace[p].held > getMaxKeptCount

-----------------------------------------------------------------------------
\* the step receives the last fragment of a group in repair mode: with it
\* the fragments accumulated in pendingIn number the group's known count;
\* the regrouper holds nothing of the group, and no overflow is reported
LastFragmentStep ==
    /\ IsInput' /\ node.handlers /\ node.repair /\ HasParts(input'.msg)
    /\ ~Overflowed(trace')
    /\ input'.msg.parts.id \notin DOMAIN pendingOut
    /\ input'.msg.parts.id \notin DOMAIN received
    /\ LET m == input'.msg
           old == IF m.parts.id \in DOMAIN pendingIn THEN pendingIn[m.parts.id]
                  ELSE [count |-> {}, msgs |-> <<>>]
           known == IF hasOwnProperty(m.parts, "count") THEN {m.parts.count}
                    ELSE old.count
       IN  known = {Len(old.msgs) + 1}

\* the group of the step's input is gone from all three structures
Disbanded ==
    /\ input'.msg.parts.id \notin DOMAIN pendingIn'
    /\ input'.msg.parts.id \notin DOMAIN pendingOut'
    /\ input'.msg.parts.id \notin DOMAIN received'

\* C18: in repair mode the run that receives the last fragment of a group
\* emits the group, one array per fragment, and leaves no pendingIn entry,
\* pendingOut entry or received counter of the group.
C18Step ==
    LastFragmentStep =>
        /\ Disbanded
        /\ Len(Sends(trace')) = Len(Evals(trace'))
        /\ Evals(trace') # <<>>

C18Completion == [][C18Step]_vars

-----------------------------------------------------------------------------
\* the node has a rule of one of the kinds
HasRuleOf(kinds) == \E j \in 1..Len(node.rules) : node.rules[j].t \in kinds

\* the step receives a fragment with which its group is not yet whole: the
\* fragments accumulated do not number the group's known count
EarlyFragmentStep ==
    /\ IsInput' /\ node.handlers /\ ~node.repair /\ HasParts(input'.msg)
    /\ LET m == input'.msg
           old == IF m.parts.id \in DOMAIN pendingIn THEN pendingIn[m.parts.id]
                  ELSE [count |-> {}, msgs |-> <<>>]
           known == IF hasOwnProperty(m.parts, "count") THEN {m.parts.count}
                    ELSE old.count
       IN  known # {Len(old.msgs) + 1}

\* C19 as stated: with repair off and a head, tail, index or
\* expression-result rule, a fragment is not evaluated before its whole
\* group has arrived.
C19StepAsStated ==
    (EarlyFragmentStep /\ HasRuleOf({"head", "tail", "index", "jsonata_exp"}))
        => Evals(trace') = <<>>

C19AsStated == [][C19StepAsStated]_vars

\* C19: with repair off and a tail or expression-result rule, a fragment
\* is not evaluated before its whole group has arrived; head and index rules
\* alone do not make the node wait, and the fragment is evaluated on arrival.
C19Step ==
    EarlyFragmentStep =>
        IF HasRuleOf({"tail", "jsonata_exp"})
        THEN Evals(trace') = <<>>
        ELSE Evaluated(trace') = <<input'.msg>>

C19CountRules == [][C19Step]_vars

\* a fragment waits at a node whose only reason to buffer is its
\* expression-result rule
C19Witness ==
    /\ IsInput /\ node.handlers /\ ~node.repair /\ HasParts(input.msg)
    /\ HasRuleOf({"jsonata_exp"}) /\ ~HasRuleOf({"tail"})
    /\ trace = <<>>
    /\ input.msg.parts.id \in DOMAIN pendingIn
    /\ Len(pendingIn[input.msg.parts.id].msgs) = 2

-----------------------------------------------------------------------------
\* the pass at position p of the trace was not aborted
Completed(tr, p) == ~(p < Len(tr) /\ IsFailure(tr[p + 1]))

\* what previousValue is after the pass of eval event tr[p]
AfterPass(tr, p) ==
    IF Completed(tr, p) THEN getProperty(tr[p].msg).value ELSE tr[p].prev

\* the position of the pass before the pass at p, 0 if there is none
PassBefore(tr, p) ==
    LET qs == { q \in 1..(p - 1) : IsEval(tr[q]) }
    IN  IF qs = {} THEN 0 ELSE CHOOSE q \in qs : \A r \in qs : r <= q

\* C20: previousValue is null at first; every pass starts from the resolved
\* property of the most recent pass that was not aborted, an aborted pass and
\* a run that only buffers leave previousValue as it was, and every rule of
\* a pass with a previous-value operand is decided with the value the pass
\* started from.
C20Step ==
    /\ \A p \in 1..Len(trace') :
            IsEval(trace'[p]) =>
                trace'[p].prev =
                    IF PassBefore(trace', p) = 0 THEN previousValue
                    ELSE AfterPass(trace', PassBefore(trace', p))
    /\ previousValue' =
            IF PassBefore(trace', Len(trace') + 1) = 0 THEN previousValue
            ELSE AfterPass(trace', PassBefore(trace', Len(trace') + 1))
    /\ \A p \in DirectPairs(trace') :
            \A j \in 1..Len(trace'[p + 1].ports) :
                (node.rules[j].vt = "prev"
                    \/ (hasOwnProperty(node.rules[j], "v2t") /\ node.rules[j].v2t = "prev"))
                => ((trace'[p + 1].ports[j] # Null) <=> OpHolds(j, trace'[p]))

C20Memory == (previousValue = Null) /\ [][C20Step]_vars

\* a pass that started from the payload 2 of the pass before it was
\* aborted, and previousValue is still 2
C20Witness ==
    /\ IsInput /\ input.msg = [payload |-> Str("x")]
    /\ Len(node.rules) = 3 /\ node.rules[1].vt = "prev"
    /\ Len(trace) = 2 /\ trace[2] = InvalidExpr
    /\ trace[1].prev = Num(2) /\ previousValue = Num(2)

====
